---- MODULE Spec2Model ----
(***************************************************************************)
(* The unknown registry of the automatic-differentiation pass              *)
(* (crates/auto_diff/src/unkowns.rs): the first-order registry, the        *)
(* hash-consed store of higher-order unknowns, the scratch buffer and the  *)
(* order-raising algorithm.                                                *)
(*                                                                         *)
(* Handles (Unkown, FirstOrderUnkown, NthOrderUnkown) are u32 newtypes;    *)
(* they are modelled by their raw value, a natural number counted from 0.  *)
(* Option<T> is modelled as a sequence: None is <<>>, Some(x) is <<x>>.    *)
(***************************************************************************)
EXTENDS Integers, Sequences, FiniteSets, TLC

\* ------------------------------------------------------------------ bounds
\* Largest number of (callback, coefficient list) pairs given to Unkowns::new.
MaxFirst == 2
\* Largest number of nodes the higher-order store may hold: raise_order is
\* not called when it would grow the store beyond this.
MaxNodes == 3
\* Largest number of distinct (unkown, next_unkown) pairs raise_order is
\* called with.
MaxCalls == 3

\* Largest number of nodes the store may hold where one unknown is raised
\* again and again, beyond the scratch capacity.
MaxDeepNodes == 17

\* Largest index an attribute range starts at.
MaxAttrStart == 1
\* Largest distance from the start an attribute range ends at.
MaxAttrLen == 256
\* Largest number of statements a StatementOwnerCache is built for.
MaxStmts == 2
\* Largest number of basic blocks of a control flow graph.
MaxBlocks == 2

\* ------------------------------------------------------------------ values
None == <<>>
Some(x) == <<x>>

\* Callback identities; one more than can be registered, so that some
\* callback is always unregistered.
Callbacks == 1 .. (MaxFirst + 1)
\* CfgParam identities.
Params == 1 .. 2

\* A u64 is four 16-bit limbs, most significant first.
BitsZero == <<0, 0, 0, 0>>
\* 0x3FF0000000000000, the bit pattern of 1.0
BitsOne == <<16368, 0, 0, 0>>
\* 0xC004000000000000, the bit pattern of -2.5
BitsNegTwoHalf == <<49156, 0, 0, 0>>

\* f64::from_bits: the IEEE-754 binary64 fields of a 64-bit pattern.
from_bits(b) ==
    [sign |-> b[1] \div 32768,
     exponent |-> (b[1] % 32768) \div 16,
     fraction |-> <<b[1] % 16, b[2], b[3], b[4]>>]

\* The literal 0.0.
FloatZero == [sign |-> 0, exponent |-> 0, fraction |-> <<0, 0, 0, 0>>]

VARIABLES
    first_order_unkowns,   \* TiMap: sequence of [callback, info], handle i at i+1
    higher_order_unkowns,  \* TiSet: sequence of NthOrderUnkownInfo, index i at i+1
    buf,                   \* Cell<Vec<FirstOrderUnkown>>
    last,                  \* the last call: operation, arguments, result
    memo,                  \* history: (unkown, next_unkown) |-> first result
    built,                 \* history: <<handle, number of raise_order applications>>
    supplied,              \* history: the pairs Unkowns::new was given
    frame,                 \* the raise_order call in progress: its locals and position
    cache,                 \* StatementOwnerCache: OnceCell<StatementOwners>
    stmt_count,            \* StatementOwnerCache: the number of statements
    db                     \* BaseDB: the lint inputs of the root file

vars == <<first_order_unkowns, higher_order_unkowns, buf, last, memo, built,
          supplied, frame, cache, stmt_count, db>>

\* ------------------------------------------------------------------ helpers
Reverse(s) == [i \in 1 .. Len(s) |-> s[Len(s) + 1 - i]]

Range(s) == {s[i] : i \in 1 .. Len(s)}

\* IndexMap::get_index_of on the key column.
IndexOfCallback(m, c) ==
    IF \E i \in 1 .. Len(m) : m[i].callback = c
    THEN Some((CHOOSE i \in 1 .. Len(m) : m[i].callback = c) - 1)
    ELSE None

\* Variant: an existing key keeps its value (entry().or_insert()).
IndexMapInsert_keepfirst(m, c, info) ==
    IF \E i \in 1 .. Len(m) : m[i].callback = c
    THEN m
    ELSE Append(m, [callback |-> c, info |-> info])

\* IndexMap::insert: a new key is appended, an existing key keeps its
\* position and takes the new value.
IndexMapInsert(m, c, info) ==
    IF \E i \in 1 .. Len(m) : m[i].callback = c
    THEN [i \in 1 .. Len(m) |->
            IF m[i].callback = c THEN [callback |-> c, info |-> info] ELSE m[i]]
    ELSE Append(m, [callback |-> c, info |-> info])

RECURSIVE Collect(_, _)
Collect(m, unkowns) ==
    IF unkowns = <<>> THEN m
    ELSE Collect(IndexMapInsert(m, Head(unkowns)[1], Head(unkowns)[2]), Tail(unkowns))

\* Variant: the pairs are collected into a map ordered by callback.
new_sorted(unkowns) ==
    LET m == Collect(<<>>, unkowns)
        Rank(k) == Cardinality({j \in 1 .. Len(m) : m[j].callback <= m[k].callback})
    IN  [i \in 1 .. Len(m) |-> m[CHOOSE k \in 1 .. Len(m) : Rank(k) = i]]

\* Unkowns::new: the first-order registry built from the supplied pairs.
new(unkowns) == Collect(<<>>, unkowns)

\* impl From<FirstOrderUnkown> for Unkown
UnkownFrom(f) == f

\* ------------------------------------------------------------------ Vec
\* A Vec is [items, cap]: its elements and its allocated capacity.
\* The capacity the scratch buffer is allocated with in Unkowns::new.
ScratchCapacity == 8

\* Vec::with_capacity(n)
with_capacity(n) == [items |-> <<>>, cap |-> n]

\* Vec::new(), which Cell::take leaves behind.
VecNew == [items |-> <<>>, cap |-> 0]

Max(a, b) == IF a >= b THEN a ELSE b

\* Variant: a vector of fixed capacity; an element pushed to a full vector is
\* dropped.
push_fixed(v, x, lower) ==
    IF Len(v.items) = v.cap THEN v
    ELSE [v EXCEPT !.items = Append(@, x)]

\* One element of Vec::extend: a full vector first reserves room for the
\* element and the iterator's lower size hint, growing to at least twice its
\* capacity and at least 4; then the element is written.
push(v, x, lower) ==
    [items |-> Append(v.items, x),
     cap |-> IF Len(v.items) = v.cap
             THEN Max(Max(2 * v.cap, Len(v.items) + lower + 1), 4)
             ELSE v.cap]

\* Vec::extend with the elements an iterator yields; the iterators here
\* report a lower size hint of 1 while they have an element left.
RECURSIVE extend(_, _)
extend(v, xs) ==
    IF xs = <<>> THEN v
    ELSE extend(push(v, Head(xs), IF Tail(xs) = <<>> THEN 0 ELSE 1), Tail(xs))

\* Vec::drain(..), run to its end: the elements are gone, the capacity stays.
drained(v) == [v EXCEPT !.items = <<>>]

\* ------------------------------------------------------------------ reads
\* The read operations take the two stores as arguments so that they can be
\* evaluated on the store as it was before a call as well as after it.
\* Variant: only the higher-order store is counted.
len_of_higher(fo, ho) == Len(ho)

len_of(fo, ho) == Len(fo) + Len(ho)

nth_order_info(ho, unkown) == ho[unkown + 1]

\* Variant: the range test admits the first higher-order handle.
previous_order_of_le(fo, ho, unkown) ==
    IF unkown <= Len(fo)
    THEN None
    ELSE Some(nth_order_info(ho, unkown - Len(fo)).previous_order)

previous_order_of(fo, ho, unkown) ==
    IF unkown < Len(fo)
    THEN None
    ELSE Some(nth_order_info(ho, unkown - Len(fo)).previous_order)

to_first_order_of(fo, ho, unkown) ==
    IF unkown < Len(fo)
    THEN unkown
    ELSE nth_order_info(ho, unkown - Len(fo)).base

\* iter::successors(Some(unkown), |it| previous_order(*it)), collected: the
\* handles from unkown down to the first-order handle its chain ends in.
RECURSIVE successors(_, _, _)
successors(fo, ho, unkown) ==
    LET p == previous_order_of(fo, ho, unkown)
    IN  <<unkown>> \o (IF p = None THEN <<>> ELSE successors(fo, ho, p[1]))

\* Variant: the walk starts at previous_order(unkown), not at unkown.
first_order_unkowns_of_skip(fo, ho, unkown) ==
    LET s == Tail(successors(fo, ho, unkown))
    IN  [i \in 1 .. Len(s) |-> to_first_order_of(fo, ho, s[i])]

\* first_order_unkowns: the successors mapped through to_first_order.
first_order_unkowns_of(fo, ho, unkown) ==
    LET s == successors(fo, ho, unkown)
    IN  [i \in 1 .. Len(s) |-> to_first_order_of(fo, ho, s[i])]

\* Variant: the collected vector is returned front to back, without rev().
first_order_unkowns_rev_of_norev(fo, ho, unkown) ==
    LET s == successors(fo, ho, unkown)
    IN  [i \in 1 .. Len(s) |-> to_first_order_of(fo, ho, s[i])]

\* first_order_unkowns_rev: the successors mapped through to_first_order are
\* collected into a vector, which is then iterated from its back.
first_order_unkowns_rev_of(fo, ho, unkown) ==
    LET s == successors(fo, ho, unkown)
        unkowns == [i \in 1 .. Len(s) |-> to_first_order_of(fo, ho, s[i])]
    IN  Reverse(unkowns)

\* The operations on the current state.
len == len_of(first_order_unkowns, higher_order_unkowns)
is_empty == (len = 0)
previous_order(unkown) == previous_order_of(first_order_unkowns, higher_order_unkowns, unkown)
to_first_order(unkown) == to_first_order_of(first_order_unkowns, higher_order_unkowns, unkown)
first_order_unkowns_iter(unkown) ==
    first_order_unkowns_of(first_order_unkowns, higher_order_unkowns, unkown)
first_order_unkowns_rev(unkown) ==
    first_order_unkowns_rev_of(first_order_unkowns, higher_order_unkowns, unkown)

\* Variant: the last matching entry is taken (rfind).
param_derivative_last(param, unkown) ==
    LET info == first_order_unkowns[unkown + 1].info
        hits == {i \in 1 .. Len(info) : info[i][1] = param}
    IN  IF hits = {} THEN FloatZero
        ELSE from_bits(info[CHOOSE i \in hits : \A j \in hits : i >= j][2])

param_derivative(param, unkown) ==
    LET info == first_order_unkowns[unkown + 1].info
        hits == {i \in 1 .. Len(info) : info[i][1] = param}
    IN  IF hits = {} THEN FloatZero
        ELSE from_bits(info[CHOOSE i \in hits : \A j \in hits : i <= j][2])

callback_unkown(callback) == IndexOfCallback(first_order_unkowns, callback)

\* ------------------------------------------------------------------ raise_order
\* TiSet::ensure: the index of an equal element if there is one, else the
\* element is appended and its new index returned.
ensure(ho, info) ==
    IF \E i \in 1 .. Len(ho) : ho[i] = info
    THEN [store |-> ho, index |-> (CHOOSE i \in 1 .. Len(ho) : ho[i] = info) - 1,
          inserted |-> FALSE]
    ELSE [store |-> Append(ho, info), index |-> Len(ho), inserted |-> TRUE]

\* Variant: the node is pushed without looking for an equal one.
raise_step_push(fo, st, base) ==
    [store |-> Append(st.store, [previous_order |-> st.curr, base |-> base]),
     curr |-> Len(st.store) + Len(fo),
     inserted |-> st.inserted + 1]

\* Variant: the store index is returned without the first-order offset.
raise_step_nooffset(fo, st, base) ==
    LET e == ensure(st.store, [previous_order |-> st.curr, base |-> base])
    IN  [store |-> e.store,
         curr |-> e.index,
         inserted |-> st.inserted + (IF e.inserted THEN 1 ELSE 0)]

\* Variant: the offset is the store's length after the insert, one too many.
raise_step_offbyone(fo, st, base) ==
    LET e == ensure(st.store, [previous_order |-> st.curr, base |-> base])
    IN  [store |-> e.store,
         curr |-> e.index + Len(fo) + 1,
         inserted |-> st.inserted + (IF e.inserted THEN 1 ELSE 0)]

\* Variant: a node that is not found is inserted at the front of the store.
raise_step_front(fo, st, base) ==
    LET info == [previous_order |-> st.curr, base |-> base]
        e == ensure(st.store, info)
    IN  IF e.inserted
        THEN [store |-> <<info>> \o st.store, curr |-> Len(fo),
              inserted |-> st.inserted + 1]
        ELSE [store |-> e.store, curr |-> e.index + Len(fo), inserted |-> st.inserted]

\* One iteration of the loop: st is [store, curr, inserted], the store being
\* written, the running handle and the number of nodes inserted so far.
raise_step(fo, st, base) ==
    LET e == ensure(st.store, [previous_order |-> st.curr, base |-> base])
    IN  [store |-> e.store,
         curr |-> e.index + Len(fo),
         inserted |-> st.inserted + (IF e.inserted THEN 1 ELSE 0)]

\* The loop over a sequence of bases, first to last.
RECURSIVE raise_loop(_, _, _)
raise_loop(fo, st, bases) ==
    IF bases = <<>> THEN st
    ELSE raise_loop(fo, raise_step(fo, st, Head(bases)), Tail(bases))

\* Variant: the buffer is iterated, not drained, and keeps its contents.
raise_order_nodrain(fo, ho, b, unkown, next_unkown) ==
    LET prev_orders == extend(b, first_order_unkowns_of(fo, ho, unkown))
        st == raise_loop(fo,
                         [store |-> ho, curr |-> UnkownFrom(next_unkown), inserted |-> 0],
                         Reverse(prev_orders.items))
    IN  [store |-> st.store, curr |-> st.curr, inserted |-> st.inserted,
         buf |-> prev_orders]

\* Variant: the buffer is replayed front to back, without rev().
raise_order_norev(fo, ho, b, unkown, next_unkown) ==
    LET prev_orders == extend(b, first_order_unkowns_of(fo, ho, unkown))
        st == raise_loop(fo,
                         [store |-> ho, curr |-> UnkownFrom(next_unkown), inserted |-> 0],
                         prev_orders.items)
    IN  [store |-> st.store, curr |-> st.curr, inserted |-> st.inserted,
         buf |-> drained(prev_orders)]

\* Variant: one node {previous_order: unkown, base: next_unkown} is looked up
\* or inserted, extending the chain at its top.
raise_order_extend(fo, ho, b, unkown, next_unkown) ==
    LET st == raise_step(fo, [store |-> ho, curr |-> unkown, inserted |-> 0],
                         next_unkown)
    IN  [store |-> st.store, curr |-> st.curr, inserted |-> st.inserted,
         buf |-> b]

\* Variant: the loop writes to a new, empty set, which replaces the store.
raise_order_fresh(fo, ho, b, unkown, next_unkown) ==
    LET prev_orders == extend(b, first_order_unkowns_of(fo, ho, unkown))
        st == raise_loop(fo,
                         [store |-> <<>>, curr |-> UnkownFrom(next_unkown), inserted |-> 0],
                         Reverse(prev_orders.items))
    IN  [store |-> st.store, curr |-> st.curr, inserted |-> st.inserted,
         buf |-> drained(prev_orders)]

\* Variant: the buffer is filled with the handles of the chain, not mapped
\* through to_first_order.
raise_order_handles(fo, ho, b, unkown, next_unkown) ==
    LET prev_orders == extend(b, successors(fo, ho, unkown))
        st == raise_loop(fo,
                         [store |-> ho, curr |-> UnkownFrom(next_unkown), inserted |-> 0],
                         Reverse(prev_orders.items))
    IN  [store |-> st.store, curr |-> st.curr, inserted |-> st.inserted,
         buf |-> drained(prev_orders)]

\* Variant: the bases are put in ascending order before they are replayed, so
\* that every order of the same variables builds the same chain.
raise_order_sorted(fo, ho, b, unkown, next_unkown) ==
    LET prev_orders == extend(b, first_order_unkowns_of(fo, ho, unkown))
        all == SortSeq(prev_orders.items \o <<next_unkown>>, LAMBDA x, y : x < y)
        st == raise_loop(fo,
                         [store |-> ho, curr |-> UnkownFrom(all[Len(all)]), inserted |-> 0],
                         Reverse(SubSeq(all, 1, Len(all) - 1)))
    IN  [store |-> st.store, curr |-> st.curr, inserted |-> st.inserted,
         buf |-> drained(prev_orders)]

\* raise_order: [store, curr, inserted, buf] after the call, curr being the
\* handle returned and buf the vector put back into the cell, b being the
\* vector taken from it.
raise_order(fo, ho, b, unkown, next_unkown) ==
    LET prev_orders == extend(b, first_order_unkowns_of(fo, ho, unkown))
        st == raise_loop(fo,
                         [store |-> ho, curr |-> UnkownFrom(next_unkown), inserted |-> 0],
                         Reverse(prev_orders.items))
    IN  [store |-> st.store, curr |-> st.curr, inserted |-> st.inserted,
         buf |-> drained(prev_orders)]

\* ------------------------------------------------------------------ state machine
\* The record of a call: the operation, its arguments u and n, its result,
\* and for raise_order the store as it was before the call, the number of
\* nodes the call inserted and whether the history already held a call with
\* the same arguments.
Call(op, u, n, ret, pre, inserted) ==
    [op |-> op, u |-> u, n |-> n, ret |-> ret, pre |-> pre, inserted |-> inserted,
     again |-> FALSE]

\* The pairs the registry is constructed from: distinct callbacks in
\* ascending order, each with a coefficient list (FirstOrderUnkownInfo).
InfoOfCallback(c) ==
    IF c % 3 = 1 THEN << <<1, BitsOne>> >>
    ELSE IF c % 3 = 2 THEN << <<2, BitsNegTwoHalf>>, <<1, BitsZero>>, <<2, BitsOne>> >>
    ELSE <<>>

Inputs == { [i \in 1 .. k |-> <<i, InfoOfCallback(i)>>] : k \in 0 .. MaxFirst }

\* No raise_order call is in progress.
Idle == [pc |-> "idle"]

\* The registry as Unkowns::new(unkowns) returns it.
Constructed(unkowns) ==
    /\ first_order_unkowns = new(unkowns)
    /\ higher_order_unkowns = <<>>
    /\ buf = with_capacity(ScratchCapacity)
    /\ last = Call("new", Len(unkowns), 0, None, <<>>, 0)
    /\ memo = {}
    /\ built = {<<f, 0>> : f \in 0 .. (Len(new(unkowns)) - 1)}
    /\ supplied = unkowns
    /\ frame = Idle

\* No statement-owner cache is in use.
NoOwnerCache ==
    /\ cache = None
    /\ stmt_count = 0

\* No database is in use.
NoDb == db = None

Init == \E unkowns \in Inputs : Constructed(unkowns) /\ NoOwnerCache /\ NoDb

Unkown == 0 .. (len - 1)
FirstOrderUnkown == 0 .. (Len(first_order_unkowns) - 1)

MemoKeys == {m.key : m \in memo}
MemoRet(key) == (CHOOSE m \in memo : m.key = key).ret

\* A raise_order call that leaves at most nodes nodes in the store. With
\* track the call is also entered in the history variables memo and built;
\* the program state changes the same way.
RaiseOrderWithin(track, nodes) ==
    \E unkown \in Unkown, next_unkown \in FirstOrderUnkown :
        LET r == raise_order(first_order_unkowns, higher_order_unkowns, buf,
                             unkown, next_unkown)
            key == <<unkown, next_unkown>>
        IN  /\ Len(r.store) <= nodes
            /\ track => (key \in MemoKeys \/ Cardinality(memo) < MaxCalls)
            /\ higher_order_unkowns' = r.store
            /\ buf' = r.buf
            /\ last' = [Call("raise_order", unkown, next_unkown, r.curr,
                             higher_order_unkowns, r.inserted)
                             EXCEPT !.again = track /\ key \in MemoKeys]
            /\ memo' = IF track /\ key \notin MemoKeys
                       THEN memo \cup {[key |-> key, ret |-> r.curr]}
                       ELSE memo
            /\ built' = IF track
                        THEN built \cup {<<r.curr, p[2] + 1>> :
                                             p \in {q \in built : q[1] = unkown}}
                        ELSE built
            /\ UNCHANGED <<first_order_unkowns, supplied, frame, cache, stmt_count, db>>

RaiseOrderCall(track) == RaiseOrderWithin(track, MaxNodes)

RaiseOrder == RaiseOrderCall(FALSE)

\* A raise_order call of a repeated derivation: the first call raises a
\* first-order unknown, every later call the handle the call before it
\* returned.
RaiseOrderDeep ==
    /\ last.op \in {"new", "raise_order"}
    /\ RaiseOrderWithin(FALSE, MaxDeepNodes)
    /\ last.op = "new" => last'.u < Len(first_order_unkowns)
    /\ last.op = "raise_order" => last'.u = last.ret

RaiseOrderTracked == RaiseOrderCall(TRUE)

LenOp ==
    /\ last' = Call("len", 0, 0, len, <<>>, 0)
    /\ UNCHANGED <<first_order_unkowns, higher_order_unkowns, buf, memo, built,
                     supplied, frame, cache, stmt_count, db>>

IsEmptyOp ==
    /\ last' = Call("is_empty", 0, 0, is_empty, <<>>, 0)
    /\ UNCHANGED <<first_order_unkowns, higher_order_unkowns, buf, memo, built,
                     supplied, frame, cache, stmt_count, db>>

PreviousOrderOp ==
    \E unkown \in Unkown :
        /\ last' = Call("previous_order", unkown, 0, previous_order(unkown), <<>>, 0)
        /\ UNCHANGED <<first_order_unkowns, higher_order_unkowns, buf, memo, built,
                     supplied, frame, cache, stmt_count, db>>

ToFirstOrderOp ==
    \E unkown \in Unkown :
        /\ last' = Call("to_first_order", unkown, 0, to_first_order(unkown), <<>>, 0)
        /\ UNCHANGED <<first_order_unkowns, higher_order_unkowns, buf, memo, built,
                     supplied, frame, cache, stmt_count, db>>

FirstOrderUnkownsOp ==
    \E unkown \in Unkown :
        /\ last' = Call("first_order_unkowns", unkown, 0,
                        first_order_unkowns_iter(unkown), <<>>, 0)
        /\ UNCHANGED <<first_order_unkowns, higher_order_unkowns, buf, memo, built,
                     supplied, frame, cache, stmt_count, db>>

\* Variant: the sequence is collected into the registry's scratch buffer.
FirstOrderUnkownsRevOp_buf ==
    \E unkown \in Unkown :
        /\ last' = Call("first_order_unkowns_rev", unkown, 0,
                        first_order_unkowns_rev(unkown), <<>>, 0)
        /\ buf' = extend(buf, first_order_unkowns_iter(unkown))
        /\ UNCHANGED <<first_order_unkowns, higher_order_unkowns, memo, built,
                       supplied, frame, cache, stmt_count, db>>

FirstOrderUnkownsRevOp ==
    \E unkown \in Unkown :
        /\ last' = Call("first_order_unkowns_rev", unkown, 0,
                        first_order_unkowns_rev(unkown), <<>>, 0)
        /\ UNCHANGED <<first_order_unkowns, higher_order_unkowns, buf, memo, built,
                     supplied, frame, cache, stmt_count, db>>

ParamDerivativeOp ==
    \E param \in Params, unkown \in FirstOrderUnkown :
        /\ last' = Call("param_derivative", unkown, param,
                        param_derivative(param, unkown), <<>>, 0)
        /\ UNCHANGED <<first_order_unkowns, higher_order_unkowns, buf, memo, built,
                     supplied, frame, cache, stmt_count, db>>

CallbackUnkownOp ==
    \E callback \in Callbacks :
        /\ last' = Call("callback_unkown", callback, 0, callback_unkown(callback), <<>>, 0)
        /\ UNCHANGED <<first_order_unkowns, higher_order_unkowns, buf, memo, built,
                     supplied, frame, cache, stmt_count, db>>

Next ==
    \/ RaiseOrder
    \/ LenOp
    \/ IsEmptyOp
    \/ PreviousOrderOp
    \/ ToFirstOrderOp
    \/ FirstOrderUnkownsOp
    \/ FirstOrderUnkownsRevOp
    \/ ParamDerivativeOp
    \/ CallbackUnkownOp

Spec == Init /\ [][Next]_vars

\* ------------------------------------------------------------------ raise_order, step by step
\* A raise_order call in progress is [pc, unkown, next_unkown, prev_orders,
\* it, curr, inserted, entry, log]: prev_orders is the local vector, it the
\* successors iterator's next item, curr the running handle (None until the
\* walk has ended), entry the store at call entry, and log the accesses to
\* the higher-order store so far: "read" for a node read by the chain walk,
\* "ensure" for a lookup-or-insert.

\* Variant: the item mapped through to_first_order is pushed twice.
extend_step_twice(fo, ho, fr) ==
    LET item == fr.it[1]
        p == previous_order_of(fo, ho, item)
        f == to_first_order_of(fo, ho, item)
    IN  [fr EXCEPT !.prev_orders = push(push(@, f, 1), f, IF p = None THEN 0 ELSE 1),
                   !.it = p,
                   !.log = @ \o (IF item < Len(fo) THEN <<>> ELSE <<"read", "read">>)]

\* One element of prev_orders.extend(self.first_order_unkowns(unkown)): the
\* iterator yields its item, computes the successor with previous_order, and
\* the item mapped through to_first_order is pushed.
extend_step(fo, ho, fr) ==
    LET item == fr.it[1]
        p == previous_order_of(fo, ho, item)
        f == to_first_order_of(fo, ho, item)
    IN  [fr EXCEPT !.prev_orders = push(@, f, IF p = None THEN 0 ELSE 1),
                   !.it = p,
                   !.log = @ \o (IF item < Len(fo) THEN <<>> ELSE <<"read", "read">>)]

\* One iteration of the loop over prev_orders.drain(..).rev(): the last
\* element left is taken and looked up or inserted.
loop_step(fo, ho, fr) ==
    LET base == fr.prev_orders.items[Len(fr.prev_orders.items)]
        st == raise_step(fo, [store |-> ho, curr |-> fr.curr[1],
                              inserted |-> fr.inserted], base)
    IN  [frame |-> [fr EXCEPT !.prev_orders.items = SubSeq(@, 1, Len(@) - 1),
                              !.curr = Some(st.curr),
                              !.inserted = st.inserted,
                              !.log = Append(@, "ensure")],
         store |-> st.store]

\* Variant: no vector is filled first; each element the walk yields is looked
\* up or inserted at once, and the walk then goes on in the changed store.
raise_advance_lazy(fo, ho, fr) ==
    IF fr.pc = "extend"
    THEN LET e == extend_step(fo, ho, fr)
         IN  [frame |-> [e EXCEPT !.pc = "loop",
                                  !.curr = IF fr.curr = None
                                           THEN Some(UnkownFrom(fr.next_unkown))
                                           ELSE fr.curr],
              store |-> ho]
    ELSE LET l == loop_step(fo, ho, fr)
         IN  [frame |-> [l.frame EXCEPT !.pc = IF fr.it = None THEN "loop" ELSE "extend"],
              store |-> l.store]

\* The next step of a call in progress, [frame, store] after it: the walk is
\* run to its end into prev_orders, then curr is set to next_unkown, then the
\* loop runs.
raise_advance(fo, ho, fr) ==
    IF fr.pc = "extend"
    THEN LET e == extend_step(fo, ho, fr)
         IN  [frame |-> IF e.it = None
                        THEN [e EXCEPT !.pc = "loop",
                                       !.curr = Some(UnkownFrom(fr.next_unkown))]
                        ELSE e,
              store |-> ho]
    ELSE loop_step(fo, ho, fr)

\* The call is entered: the buffer is taken, leaving an empty one, and the
\* walk is set up at unkown.
RaiseEnter ==
    \E unkown \in Unkown, next_unkown \in FirstOrderUnkown :
        /\ frame = Idle
        /\ Len(raise_order(first_order_unkowns, higher_order_unkowns, buf,
                           unkown, next_unkown).store) <= MaxNodes
        /\ frame' = [pc |-> "extend", unkown |-> unkown, next_unkown |-> next_unkown,
                     prev_orders |-> buf, it |-> Some(unkown), curr |-> None,
                     inserted |-> 0, entry |-> higher_order_unkowns, log |-> <<>>]
        /\ buf' = VecNew
        /\ UNCHANGED <<first_order_unkowns, higher_order_unkowns, last, memo, built,
                       supplied, cache, stmt_count, db>>

\* The call takes its next step.
RaiseStep ==
    /\ frame # Idle
    /\ frame.pc = "extend" \/ frame.prev_orders.items # <<>>
    /\ LET r == raise_advance(first_order_unkowns, higher_order_unkowns, frame)
       IN  /\ frame' = r.frame
           /\ higher_order_unkowns' = r.store
    /\ UNCHANGED <<first_order_unkowns, buf, last, memo, built, supplied, cache, stmt_count, db>>

\* Variant: the loop went over a copy of the vector, which is put back with
\* the chain still in it.
RaiseReturn_undrained ==
    /\ frame # Idle
    /\ frame.pc = "loop" /\ frame.prev_orders.items = <<>>
    /\ buf' = extend(frame.prev_orders,
                     first_order_unkowns_of(first_order_unkowns, frame.entry,
                                            frame.unkown))
    /\ last' = Call("raise_order", frame.unkown, frame.next_unkown, frame.curr[1],
                    frame.entry, frame.inserted)
    /\ frame' = Idle
    /\ UNCHANGED <<first_order_unkowns, higher_order_unkowns, memo, built, supplied, cache, stmt_count, db>>

\* The loop has ended: the drained vector is put back and curr returned.
RaiseReturn ==
    /\ frame # Idle
    /\ frame.pc = "loop" /\ frame.prev_orders.items = <<>>
    /\ buf' = frame.prev_orders
    /\ last' = Call("raise_order", frame.unkown, frame.next_unkown, frame.curr[1],
                    frame.entry, frame.inserted)
    /\ frame' = Idle
    /\ UNCHANGED <<first_order_unkowns, higher_order_unkowns, memo, built, supplied, cache, stmt_count, db>>

NextSteps ==
    \/ RaiseEnter
    \/ RaiseStep
    \/ RaiseReturn

SpecSteps == Init /\ [][NextSteps]_vars

\* The coefficient lists a supplied pair may carry.
Infos == {InfoOfCallback(c) : c \in 1 .. 3}

\* Every list of at most MaxFirst pairs, callbacks in any order and repeated.
InputsNew == UNION {[1 .. k -> Callbacks \X Infos] : k \in 0 .. MaxFirst}

InitNew == \E unkowns \in InputsNew : Constructed(unkowns) /\ NoOwnerCache /\ NoDb

\* The registry as constructed from any list of pairs, and the operations on
\* its first-order side.
NextNew ==
    \/ CallbackUnkownOp
    \/ ParamDerivativeOp
    \/ LenOp

SpecNew == InitNew /\ [][NextNew]_vars

\* The registry driven by raise_order calls alone, with the history of the
\* calls recorded.
NextHist == RaiseOrderTracked

SpecHist == Init /\ [][NextHist]_vars

\* The registry driven by raise_order calls alone, without the history.
NextRaise == RaiseOrder

SpecRaise == Init /\ [][NextRaise]_vars

\* The registry driven by one repeated derivation, to high orders.
NextDeep == RaiseOrderDeep

SpecDeep == Init /\ [][NextDeep]_vars

\* ------------------------------------------------------------------ StatementOwnerCache
\* (src/ir/cfg/statement_owner.rs) A StatementId or BasicBlockId is its index,
\* counted from 0. A control flow graph is [blocks], a sequence of basic
\* blocks [statements], block id i at i+1.

\* The statement lists of a block: statements below n, none of them twice.
StatementLists(n) ==
    {l \in UNION {[1 .. k -> 0 .. (n - 1)] : k \in 0 .. n} :
        \A i, j \in 1 .. Len(l) : l[i] = l[j] => i = j}

\* The control flow graphs over n statements: at most MaxBlocks blocks, every
\* statement in at most one of them.
Cfgs(n) ==
    {[blocks |-> [i \in 1 .. Len(b) |-> [statements |-> b[i]]]] :
        b \in {c \in UNION {[1 .. k -> StatementLists(n)] : k \in 0 .. MaxBlocks} :
                  \A i, j \in 1 .. Len(c) :
                      i # j => Range(c[i]) \cap Range(c[j]) = {}}}

\* The graphs compute may be passed, by statement count.
CfgsOf == [n \in 0 .. MaxStmts |-> Cfgs(n)]

\* The inner loop of compute: every statement of block id gets owner id.
RECURSIVE own_statements(_, _, _)
own_statements(owner, id, statements) ==
    IF statements = <<>> THEN owner
    ELSE own_statements([owner EXCEPT ![Head(statements) + 1] = Some(id)], id,
                        Tail(statements))

\* The outer loop of compute over cfg.blocks.iter_enumerated(), from block id on.
RECURSIVE own_blocks(_, _, _)
own_blocks(owner, id, blocks) ==
    IF blocks = <<>> THEN owner
    ELSE own_blocks(own_statements(owner, id, Head(blocks).statements), id + 1,
                    Tail(blocks))

\* The closure of compute: index_vec![None; stmt_count], then the loops.
owners_of(n, cfg) == own_blocks([i \in 1 .. n |-> None], 0, cfg.blocks)

\* The record of a call on the cache: the operation, the graph passed, the
\* mapping returned, the cell before the call, and as history the number of
\* times the closure has run and the graph it ran on since the cell was last
\* emptied.
CacheCall(op, cfg, ret, pre, runs, from) ==
    [op |-> op, cfg |-> cfg, ret |-> ret, pre |-> pre, runs |-> runs, from |-> from]

\* No unknown registry is in use.
NoRegistry ==
    /\ first_order_unkowns = <<>>
    /\ higher_order_unkowns = <<>>
    /\ buf = VecNew
    /\ memo = {}
    /\ built = {}
    /\ supplied = <<>>
    /\ frame = Idle

\* StatementOwnerCache::new(stmt_count)
InitCache ==
    \E n \in 0 .. MaxStmts :
        /\ NoRegistry
        /\ cache = None
        /\ stmt_count = n
        /\ NoDb
        /\ last = CacheCall("new", None, None, None, 0, None)

\* Variant: the mapping is computed on every call and replaces the cell's.
ComputeOp_always ==
    \E cfg \in CfgsOf[stmt_count] :
        /\ cache' = Some(owners_of(stmt_count, cfg))
        /\ last' = CacheCall("compute", Some(cfg), cache', cache, last.runs + 1, Some(cfg))
        /\ UNCHANGED <<first_order_unkowns, higher_order_unkowns, buf, memo, built,
                       supplied, frame, stmt_count, db>>

\* compute: OnceCell::get_or_init runs the closure if the cell is empty and
\* returns the cell's value.
ComputeOp ==
    \E cfg \in CfgsOf[stmt_count] :
        /\ cache' = IF cache = None THEN Some(owners_of(stmt_count, cfg)) ELSE cache
        /\ last' = CacheCall("compute", Some(cfg), cache', cache,
                             last.runs + (IF cache = None THEN 1 ELSE 0),
                             IF cache = None THEN Some(cfg) ELSE last.from)
        /\ UNCHANGED <<first_order_unkowns, higher_order_unkowns, buf, memo, built,
                       supplied, frame, stmt_count, db>>

\* invalidate: the cell is replaced by an empty one.
InvalidateOp ==
    /\ cache' = None
    /\ last' = CacheCall("invalidate", None, None, cache, 0, None)
    /\ UNCHANGED <<first_order_unkowns, higher_order_unkowns, buf, memo, built,
                   supplied, frame, stmt_count, db>>

NextCache ==
    \/ ComputeOp
    \/ InvalidateOp

SpecCache == InitCache /\ [][NextCache]_vars

\* ------------------------------------------------------------------ lint_lvl
\* (crates/basedb/src/lib.rs) The database answers for one root file:
\* lint_overwrite by lint and item tree id, global_lint_overwrites by lint,
\* and the default level of each lint's LintData.
LintLevels == {"Allow", "Warn", "Deny"}
Lints == 0 .. 1
ErasedItemTreeIds == 0 .. 1

Option(S) == {None} \cup {Some(x) : x \in S}

Dbs ==
    [lint_overwrite : [Lints \X ErasedItemTreeIds -> Option(LintLevels)],
     global_lint_overwrites : [Lints -> Option(LintLevels)],
     default_lvl : [Lints -> LintLevels]]

\* Variant: the global overwrite is looked at before the scoped one.
lint_lvl_global_first(d, lint, sctx) ==
    IF d.global_lint_overwrites[lint] # None
    THEN <<d.global_lint_overwrites[lint][1], FALSE>>
    ELSE IF sctx # None /\ d.lint_overwrite[<<lint, sctx[1]>>] # None
         THEN <<d.lint_overwrite[<<lint, sctx[1]>>][1], FALSE>>
         ELSE <<d.default_lvl[lint], TRUE>>

\* lint_lvl(db, lint, root_file, sctx) for the root file of d.
lint_lvl(d, lint, sctx) ==
    IF sctx # None /\ d.lint_overwrite[<<lint, sctx[1]>>] # None
    THEN <<d.lint_overwrite[<<lint, sctx[1]>>][1], FALSE>>
    ELSE IF d.global_lint_overwrites[lint] # None
         THEN <<d.global_lint_overwrites[lint][1], FALSE>>
         ELSE <<d.default_lvl[lint], TRUE>>

InitLint ==
    \E d \in Dbs :
        /\ NoRegistry
        /\ NoOwnerCache
        /\ db = Some(d)
        /\ last = [op |-> "none"]

LintLvlOp ==
    \E lint \in Lints, sctx \in Option(ErasedItemTreeIds) :
        /\ last' = [op |-> "lint_lvl", lint |-> lint, sctx |-> sctx,
                    ret |-> lint_lvl(db[1], lint, sctx)]
        /\ UNCHANGED <<first_order_unkowns, higher_order_unkowns, buf, memo, built,
                       supplied, frame, cache, stmt_count, db>>

NextLint == LintLvlOp

SpecLint == InitLint /\ [][NextLint]_vars

\* ------------------------------------------------------------------ Attributes
\* (src/ir/mod.rs) An AttributeId is its index.
\* u8::MAX
U8Max == 255

\* The call panicked.
Panic == [panicked |-> TRUE]

\* Attributes::new(start, end): the Attributes value, or Panic. The
\* subtraction of usize values overflows when end is below start, which
\* panics or wraps to a length the assertion rejects.
Attributes_new(start, end) ==
    IF end < start THEN Panic
    ELSE LET length == end - start
         IN  IF length < U8Max
             THEN [panicked |-> FALSE, start |-> start, len |-> length % (U8Max + 1)]
             ELSE Panic

\* Attributes::end
Attributes_end(attrs) == attrs.start + attrs.len

\* Attributes::as_range: the range start..end
Attributes_as_range(attrs) == [start |-> attrs.start, end |-> Attributes_end(attrs)]

InitAttrs ==
    /\ NoRegistry
    /\ NoOwnerCache
    /\ NoDb
    /\ last = [op |-> "none"]

AttributesNewOp ==
    \E start \in 0 .. MaxAttrStart, end \in 0 .. (MaxAttrStart + MaxAttrLen) :
        /\ last' = [op |-> "Attributes::new", start |-> start, end |-> end,
                    ret |-> Attributes_new(start, end)]
        /\ UNCHANGED <<first_order_unkowns, higher_order_unkowns, buf, memo, built,
                       supplied, frame, cache, stmt_count, db>>

NextAttrs == AttributesNewOp

SpecAttrs == InitAttrs /\ [][NextAttrs]_vars

\* ------------------------------------------------------------------ properties
nf == Len(first_order_unkowns)

LastRaise == last.op = "raise_order"

\* first_order_unkowns(u) in the store as it was before the last call.
PreChain(u) == first_order_unkowns_of(first_order_unkowns, last.pre, u)

\* C1: hash-consing determinism. A raise_order call whose arguments were
\* used by an earlier call returns the handle that first call returned and
\* leaves the higher-order store, and so len(), as it was.
C1_HashConsDeterminism ==
    (LastRaise /\ last.again) =>
        /\ last.ret = MemoRet(<<last.u, last.n>>)
        /\ higher_order_unkowns = last.pre
        /\ len = len_of(first_order_unkowns, last.pre)

\* A repeated call that found a store of two or more nodes, so that other
\* calls lie between it and the first one or the first one built a chain.
C1_Witness ==
    /\ LastRaise /\ last.again
    /\ Cardinality(memo) >= 2
    /\ Len(higher_order_unkowns) >= 2
    /\ last.ret = MemoRet(<<last.u, last.n>>)

\* C2: uniqueness in the higher-order store. No two distinct indices of
\* the store hold nodes with the same (previous_order, base) pair.
C2_StoreUnique ==
    \A i, j \in 1 .. Len(higher_order_unkowns) :
        higher_order_unkowns[i] = higher_order_unkowns[j] => i = j

\* A call that inserted nothing although the store holds several nodes:
\* every node it needed was found.
C2_Witness ==
    /\ LastRaise /\ last.inserted = 0
    /\ Len(higher_order_unkowns) >= 2

\* C3: replay on top of the new root. The chain of the handle raise_order
\* returns is the chain its argument had before the call, in the same order,
\* followed by next_unkown.
C3_ReplayOnNewRoot ==
    LastRaise =>
        first_order_unkowns_iter(last.ret) = PreChain(last.u) \o <<last.n>>

\* A call on a higher-order unknown whose chain has two different
\* variables.
C3_Witness ==
    /\ LastRaise
    /\ last.u >= nf
    /\ Len(PreChain(last.u)) >= 2
    /\ PreChain(last.u)[1] # PreChain(last.u)[2]
    /\ first_order_unkowns_iter(last.ret) = PreChain(last.u) \o <<last.n>>

\* The store after raise_order(a, b) on a fresh registry.
AfterFirstRaise(a, b) == <<[previous_order |-> UnkownFrom(b), base |-> a]>>

\* C4: the concrete scenario. On a fresh registry h1 = raise_order(a, b) for
\* first-order a and b is a new higher-order handle with to_first_order(h1)
\* = a, previous_order(h1) = Some(b) and chain <<a, b>>; and on the store
\* that call leaves, h2 = raise_order(h1, b) differs from h1 and has the
\* chain <<a, b, b>>.
C4_ConcreteScenario ==
    /\ (LastRaise /\ last.pre = <<>>) =>
          /\ last.ret = nf
          /\ last.ret >= len_of(first_order_unkowns, last.pre)
          /\ to_first_order(last.ret) = last.u
          /\ previous_order(last.ret) = Some(last.n)
          /\ first_order_unkowns_iter(last.ret) = <<last.u, last.n>>
    /\ \A a, b \in FirstOrderUnkown :
          (LastRaise /\ last.pre = AfterFirstRaise(a, b) /\ last.u = nf /\ last.n = b) =>
              /\ last.ret # nf
              /\ first_order_unkowns_iter(last.ret) = <<a, b, b>>

\* The second step of the scenario with two different variables.
C4_Witness ==
    \E a, b \in FirstOrderUnkown :
        /\ a # b
        /\ LastRaise /\ last.pre = AfterFirstRaise(a, b) /\ last.u = nf /\ last.n = b
        /\ first_order_unkowns_iter(last.ret) = <<a, b, b>>

\* C5 as stated: the node raise_order(u, n) returns has previous_order u and
\* base n.
C5_Original ==
    LastRaise =>
        /\ previous_order(last.ret) = Some(last.u)
        /\ to_first_order(last.ret) = last.n

\* C5, amended: the node raise_order(u, n) returns keeps the base of u,
\* to_first_order(h) = to_first_order(u); n is the last element of h's
\* chain, its root; and previous_order(h) = Some(n) when u is first-order.
C5_NodeOrientation ==
    LastRaise =>
        /\ to_first_order(last.ret) = to_first_order_of(first_order_unkowns, last.pre, last.u)
        /\ first_order_unkowns_iter(last.ret)[Len(first_order_unkowns_iter(last.ret))] = last.n
        /\ last.u < nf => previous_order(last.ret) = Some(UnkownFrom(last.n))

\* A call with a first-order u and a different n.
C5_Witness ==
    /\ LastRaise
    /\ last.u < nf
    /\ last.u # last.n
    /\ to_first_order(last.ret) = last.u
    /\ previous_order(last.ret) = Some(last.n)

RECURSIVE SumChainLen(_)
\* The sum, over a set of history entries, of the chain length of the
\* entry's first argument.
SumChainLen(S) ==
    IF S = {} THEN 0
    ELSE LET m == CHOOSE x \in S : TRUE
         IN  Len(first_order_unkowns_iter(m.key[1])) + SumChainLen(S \ {m})

\* C6 as stated: the chain of an unknown built from a first-order unknown by
\* k raise_order applications has k elements.
C6_Original ==
    \A p \in built : Len(first_order_unkowns_iter(p[1])) = p[2]

\* C6, amended: the chain of an unknown built from a first-order unknown by
\* k raise_order applications (k >= 0) has k + 1 elements.
C6_ChainLength ==
    \A p \in built : Len(first_order_unkowns_iter(p[1])) = p[2] + 1

\* An unknown built by two applications, with a chain of three.
C6_Witness ==
    \E p \in built : p[2] = 2 /\ Len(first_order_unkowns_iter(p[1])) = 3

\* C7 as stated: the store holds at most as many nodes as raise_order has
\* been called with distinct (u, next) pairs.
C7_Original ==
    Len(higher_order_unkowns) <= Cardinality(memo)

\* C7, amended: the store holds at most as many nodes as the chain lengths
\* of u add up to over the distinct (u, next) pairs raise_order has been
\* called with.
C7_NodeBound ==
    Len(higher_order_unkowns) <= SumChainLen(memo)

\* More nodes than distinct pairs, after a repeated call.
C7_Witness ==
    /\ LastRaise /\ last.again
    /\ Len(higher_order_unkowns) > Cardinality(memo)
    /\ Len(higher_order_unkowns) = SumChainLen(memo)

\* C8: monotonic growth. No step lowers len(); a step that raises it is a
\* raise_order call, and it raises len() by the number of nodes the call
\* inserted, which are the nodes of the new store that the old one lacked.
C8_MonotonicGrowth ==
    [][/\ len' >= len
       /\ len' # len =>
            /\ last'.op = "raise_order"
            /\ len' - len = last'.inserted
            /\ last'.inserted =
                 Cardinality(Range(higher_order_unkowns') \ Range(higher_order_unkowns))]_vars

\* A raise_order call that inserted two nodes at once.
C8_Witness ==
    /\ LastRaise /\ last.inserted = 2
    /\ len = len_of(first_order_unkowns, last.pre) + 2

RECURSIVE ReachesFirstOrder(_, _)
\* Following previous_order from unkown reaches None within fuel steps.
ReachesFirstOrder(unkown, fuel) ==
    LET p == previous_order(unkown)
    IN  \/ p = None
        \/ /\ fuel > 0
           /\ p[1] \in Unkown
           /\ ReachesFirstOrder(p[1], fuel - 1)

\* C9: chain termination. Every stored node's previous_order is a handle
\* below the node's own, and from every valid handle previous_order reaches
\* a first-order handle in at most as many steps as the store has nodes.
C9_ChainTermination ==
    /\ \A i \in 1 .. Len(higher_order_unkowns) :
          higher_order_unkowns[i].previous_order < nf + (i - 1)
    /\ \A u \in Unkown : ReachesFirstOrder(u, Len(higher_order_unkowns))

\* A node whose previous_order is itself higher-order: a chain of two steps.
C9_Witness ==
    \E u \in Unkown :
        /\ u >= nf
        /\ previous_order(u) # None
        /\ previous_order(u)[1] >= nf
        /\ ReachesFirstOrder(u, 2)

\* C10: identity round trip and routing. For a first-order f the handle
\* Unkown::from(f) maps back to f and has no previous order; previous_order
\* is None exactly below the first-order count, and otherwise the
\* previous_order field of the node at index u minus the first-order count.
C10_RoundTripRouting ==
    /\ \A f \in FirstOrderUnkown :
          /\ to_first_order(UnkownFrom(f)) = f
          /\ previous_order(UnkownFrom(f)) = None
    /\ \A u \in Unkown :
          /\ previous_order(u) = None <=> u < nf
          /\ u >= nf =>
               previous_order(u) = Some(higher_order_unkowns[u - nf + 1].previous_order)

\* previous_order was called on a higher-order handle and answered with a
\* handle, in a registry that has first-order unknowns.
C10_Witness ==
    /\ last.op = "previous_order"
    /\ last.u >= nf
    /\ last.ret # None
    /\ last.ret = Some(higher_order_unkowns[last.u - nf + 1].previous_order)
    /\ FirstOrderUnkown # {}

\* C11: sequence reversal. For every valid unknown the i-th element of
\* first_order_unkowns_rev is the i-th element from the end of
\* first_order_unkowns, at every chain depth; a recorded call returns that
\* sequence.
C11_SequenceReversal ==
    /\ \A u \in Unkown :
          LET fwd == first_order_unkowns_iter(u)
              rev == first_order_unkowns_rev(u)
          IN  /\ Len(rev) = Len(fwd)
              /\ \A i \in 1 .. Len(fwd) : rev[i] = fwd[Len(fwd) + 1 - i]
    /\ last.op = "first_order_unkowns_rev" =>
          /\ Len(last.ret) = Len(first_order_unkowns_iter(last.u))
          /\ last.ret[1] = first_order_unkowns_iter(last.u)[Len(last.ret)]

\* first_order_unkowns_rev was called on a chain of three whose ends differ.
C11_Witness ==
    /\ last.op = "first_order_unkowns_rev"
    /\ Len(last.ret) = 3
    /\ last.ret[1] # last.ret[3]
    /\ last.ret[1] = first_order_unkowns_iter(last.u)[3]

ReadOps ==
    {"first_order_unkowns", "first_order_unkowns_rev", "previous_order",
     "to_first_order", "len", "is_empty", "param_derivative", "callback_unkown"}

\* C12: the read operations are pure. A step that is a call of one of the
\* eight read operations leaves the higher-order store, the first-order
\* registry and the scratch buffer as they were.
C12_ReadsArePure ==
    [][last'.op \in ReadOps =>
          /\ higher_order_unkowns' = higher_order_unkowns
          /\ first_order_unkowns' = first_order_unkowns
          /\ buf' = buf]_vars

\* A sequence operation was called on a higher-order unknown; the store
\* holds what the last raise_order left and the buffer is empty.
C12_Witness ==
    /\ last.op \in {"first_order_unkowns", "first_order_unkowns_rev"}
    /\ last.u >= nf
    /\ Len(last.ret) >= 2
    /\ Len(higher_order_unkowns) >= 2
    /\ buf.items = <<>>

\* C13: frame of raise_order. A raise_order step keeps the old store as a
\* prefix of the new one and changes nothing else: for every handle valid
\* before the step, previous_order, to_first_order and first_order_unkowns
\* answer the same afterwards, and the first-order registry, with it the
\* first-order count, callback_unkown and param_derivative, is unchanged.
C13_RaiseOrderFrame ==
    [][last'.op = "raise_order" =>
          /\ Len(higher_order_unkowns') >= Len(higher_order_unkowns)
          /\ SubSeq(higher_order_unkowns', 1, Len(higher_order_unkowns)) =
                higher_order_unkowns
          /\ \A u \in Unkown :
                /\ previous_order_of(first_order_unkowns', higher_order_unkowns', u) =
                      previous_order(u)
                /\ to_first_order_of(first_order_unkowns', higher_order_unkowns', u) =
                      to_first_order(u)
                /\ first_order_unkowns_of(first_order_unkowns', higher_order_unkowns', u) =
                      first_order_unkowns_iter(u)
          /\ Len(first_order_unkowns') = Len(first_order_unkowns)
          /\ \A c \in Callbacks :
                IndexOfCallback(first_order_unkowns', c) = callback_unkown(c)
          /\ \A p \in Params, f \in FirstOrderUnkown :
                param_derivative(p, f)' = param_derivative(p, f)
          /\ buf' = buf]_vars

\* A raise_order call that appended to a store that already held nodes.
C13_Witness ==
    /\ LastRaise
    /\ Len(last.pre) >= 1
    /\ last.inserted >= 1
    /\ SubSeq(higher_order_unkowns, 1, Len(last.pre)) = last.pre

\* C14: len() is the first-order count plus the number of stored nodes; the
\* handles the registry answers for are exactly 0 .. len()-1, first-order
\* below the first-order count and one higher-order handle per store index
\* from there on; every handle the registry holds or returns is among them;
\* is_empty() holds iff len() is 0.
C14_LenAndHandles ==
    /\ len = Len(first_order_unkowns) + Len(higher_order_unkowns)
    /\ {u \in 0 .. (len + 1) :
           u + 1 \in DOMAIN first_order_unkowns
           \/ (u - nf) + 1 \in DOMAIN higher_order_unkowns} = 0 .. (len - 1)
    /\ \A i \in 1 .. Len(higher_order_unkowns) :
          higher_order_unkowns[i].previous_order \in 0 .. (len - 1)
    /\ LastRaise => last.ret \in nf .. (len - 1)
    /\ last.op = "len" => last.ret = nf + Len(higher_order_unkowns)
    /\ is_empty <=> (nf = 0 /\ higher_order_unkowns = <<>>)
    /\ last.op = "is_empty" => (last.ret <=> len = 0)

\* len() was called on a registry with first-order and higher-order
\* unknowns.
C14_Witness ==
    /\ last.op = "len"
    /\ nf >= 1
    /\ Len(higher_order_unkowns) >= 2
    /\ last.ret = nf + Len(higher_order_unkowns)

\* C15: raise_order on a valid handle and a registered first-order unknown
\* returns a handle that is valid and higher-order in the resulting state,
\* and every node it inserted has a valid previous_order and a base below
\* the first-order count.
C15_RaiseOrderInfallible ==
    LastRaise =>
        /\ last.ret >= nf
        /\ last.ret < len
        /\ \A i \in (Len(last.pre) + 1) .. Len(higher_order_unkowns) :
              /\ higher_order_unkowns[i].previous_order \in 0 .. (len - 1)
              /\ higher_order_unkowns[i].base \in FirstOrderUnkown

\* A call on a higher-order unknown that inserted two nodes.
C15_Witness ==
    /\ LastRaise
    /\ last.u >= nf
    /\ last.inserted = 2
    /\ last.ret = len - 1

\* C20: handles are canonical for their chain. Two valid handles have the
\* same first_order_unkowns sequence if and only if they are equal.
C20_CanonicalHandles ==
    \A u, v \in Unkown :
        (first_order_unkowns_iter(u) = first_order_unkowns_iter(v)) <=> (u = v)

\* Two higher-order unknowns whose chains hold the same variables in
\* different order, and so are different handles.
C20_Witness ==
    \E u, v \in Unkown :
        /\ u # v
        /\ Len(first_order_unkowns_iter(u)) = 2
        /\ first_order_unkowns_iter(v) = Reverse(first_order_unkowns_iter(u))

\* The callbacks Unkowns::new was given.
SuppliedCallbacks == {supplied[i][1] : i \in DOMAIN supplied}

DistinctCallbacks ==
    \A i, j \in DOMAIN supplied : supplied[i][1] = supplied[j][1] => i = j

\* The position of the last pair supplied for callback c.
LastOccurrence(c) ==
    CHOOSE i \in DOMAIN supplied :
        /\ supplied[i][1] = c
        /\ \A j \in DOMAIN supplied : supplied[j][1] = c => j <= i

\* The coefficient of param in a coefficient list: that of the first entry
\* for param, 0.0 if there is none.
CoeffOf(info, param) ==
    IF \A i \in 1 .. Len(info) : info[i][1] # param THEN FloatZero
    ELSE from_bits(info[CHOOSE i \in 1 .. Len(info) :
                            /\ info[i][1] = param
                            /\ \A j \in 1 .. (i - 1) : info[j][1] # param][2])

\* f64::to_bits: the 64-bit pattern of the IEEE-754 fields.
to_bits(x) ==
    <<x.sign * 32768 + x.exponent * 16 + x.fraction[1],
      x.fraction[2], x.fraction[3], x.fraction[4]>>

\* C16: first-order handle assignment. When the supplied callbacks are
\* pairwise distinct, the i-th supplied callback (from 0) has first-order
\* handle i, callback_unkown answers Some(i) for it, the first-order count
\* is the length of the list, and callback_unkown answers None for every
\* callback that was not supplied.
C16_HandleAssignment ==
    DistinctCallbacks =>
        /\ nf = Len(supplied)
        /\ \A i \in DOMAIN supplied :
              /\ callback_unkown(supplied[i][1]) = Some(i - 1)
              /\ first_order_unkowns[i].callback = supplied[i][1]
        /\ \A c \in Callbacks \ SuppliedCallbacks : callback_unkown(c) = None
        /\ last.op = "callback_unkown" =>
              \/ last.u \notin SuppliedCallbacks /\ last.ret = None
              \/ \E i \in DOMAIN supplied :
                    supplied[i][1] = last.u /\ last.ret = Some(i - 1)

\* callback_unkown answered Some(1) for the second of two callbacks that
\* were supplied in descending order.
C16_Witness ==
    /\ DistinctCallbacks
    /\ Len(supplied) = 2
    /\ supplied[1][1] > supplied[2][1]
    /\ last.op = "callback_unkown"
    /\ last.u = supplied[2][1]
    /\ last.ret = Some(1)

\* C17: duplicate callbacks, last write wins. The registry holds one
\* first-order unknown per distinct supplied callback, and its coefficient
\* list, from which param_derivative answers, is that of the last pair
\* supplied for the callback.
C17_LastWriteWins ==
    /\ nf = Cardinality(SuppliedCallbacks)
    /\ \A c \in SuppliedCallbacks :
          /\ Cardinality({i \in 1 .. nf : first_order_unkowns[i].callback = c}) = 1
          /\ callback_unkown(c) # None
          /\ LET f == callback_unkown(c)[1]
                 info == supplied[LastOccurrence(c)][2]
             IN  /\ first_order_unkowns[f + 1].info = info
                 /\ \A p \in Params : param_derivative(p, f) = CoeffOf(info, p)

\* A callback supplied twice with coefficient lists that give different
\* derivatives, and param_derivative answering from the second.
C17_Witness ==
    /\ Len(supplied) = 2
    /\ supplied[1][1] = supplied[2][1]
    /\ nf = 1
    /\ last.op = "param_derivative"
    /\ last.ret = CoeffOf(supplied[2][2], last.n)
    /\ last.ret # CoeffOf(supplied[1][2], last.n)

\* C18: coefficient default. param_derivative(p, u) for a registered u is
\* 0.0 when u's coefficient list has no entry for p; otherwise its bit
\* pattern is the stored 64-bit value of the first entry for p.
C18_CoefficientDefault ==
    /\ \A p \in Params, f \in FirstOrderUnkown :
          LET info == first_order_unkowns[f + 1].info
              hits == {i \in 1 .. Len(info) : info[i][1] = p}
          IN  /\ hits = {} => param_derivative(p, f) = FloatZero
              /\ hits # {} =>
                    \E i \in hits :
                        /\ \A j \in hits : i <= j
                        /\ to_bits(param_derivative(p, f)) = info[i][2]

\* param_derivative answered -2.5 from a list that has two entries for the
\* parameter, the second one 1.0.
C18_Witness ==
    /\ last.op = "param_derivative"
    /\ LET info == first_order_unkowns[last.u + 1].info
       IN  /\ Cardinality({i \in 1 .. Len(info) : info[i][1] = last.n}) = 2
           /\ to_bits(last.ret) = BitsNegTwoHalf

Running == frame # Idle

\* C19: copy before mutate. In a raise_order call every read of the store by
\* the chain walk comes before the first lookup-or-insert; while the loop
\* runs, the bases still to be replayed are those the chain of u had in the
\* store at call entry; and the call returns what raise_order gives on the
\* store at call entry.
C19_CopyBeforeMutate ==
    /\ Running =>
          /\ \A i, j \in 1 .. Len(frame.log) :
                (i < j /\ frame.log[i] = "ensure") => frame.log[j] # "read"
          /\ frame.pc = "loop" =>
                frame.prev_orders.items =
                    SubSeq(first_order_unkowns_of(first_order_unkowns, frame.entry,
                                                  frame.unkown),
                           1, Len(frame.prev_orders.items))
    /\ (~Running /\ LastRaise) =>
          LET r == raise_order(first_order_unkowns, last.pre, buf, last.u, last.n)
          IN  /\ last.ret = r.curr
              /\ higher_order_unkowns = r.store
              /\ buf = r.buf
              /\ buf.items = <<>>

\* A call in its loop, on an unknown whose chain walk read two nodes, after
\* an insert has changed the store.
C19_Witness ==
    /\ Running
    /\ frame.pc = "loop"
    /\ Len(SelectSeq(frame.log, LAMBDA e : e = "read")) = 4
    /\ Len(SelectSeq(frame.log, LAMBDA e : e = "ensure")) >= 2
    /\ frame.inserted >= 1
    /\ higher_order_unkowns # frame.entry

\* raise_order(raise_order(unkown, x), y), the second call made on the state
\* the first one leaves.
raise_twice(fo, ho, b, unkown, x, y) ==
    LET r1 == raise_order(fo, ho, b, unkown, x)
    IN  raise_order(fo, r1.store, r1.buf, r1.curr, y)

\* C21: raise_order is sensitive to call order. For distinct first-order a
\* and b the calls raise_order(a, b) and raise_order(b, a) made so far have
\* returned different handles, with chains <<a, b>> and <<b, a>>; and from
\* every state, for every valid u and distinct first-order b and c,
\* raise_order(raise_order(u, b), c) and raise_order(raise_order(u, c), b)
\* made one after the other return different handles, whose chains are that
\* of u followed by <<b, c>> and by <<c, b>>.
C21_OrderSensitive ==
    /\ \A m1, m2 \in memo :
          (/\ m1.key[1] < nf
           /\ m1.key[1] # m1.key[2]
           /\ m2.key = <<m1.key[2], m1.key[1]>>) =>
              /\ m1.ret # m2.ret
              /\ first_order_unkowns_iter(m1.ret) = <<m1.key[1], m1.key[2]>>
              /\ first_order_unkowns_iter(m2.ret) = <<m2.key[1], m2.key[2]>>
    /\ \A u \in Unkown : \A b, c \in FirstOrderUnkown :
          b # c =>
              LET bc == raise_twice(first_order_unkowns, higher_order_unkowns, buf, u, b, c)
                  cb == raise_twice(first_order_unkowns, bc.store, bc.buf, u, c, b)
              IN  /\ bc.curr # cb.curr
                  /\ first_order_unkowns_of(first_order_unkowns, cb.store, bc.curr) =
                        first_order_unkowns_iter(u) \o <<b, c>>
                  /\ first_order_unkowns_of(first_order_unkowns, cb.store, cb.curr) =
                        first_order_unkowns_iter(u) \o <<c, b>>

\* raise_order(a, b) and raise_order(b, a) have both been called for
\* distinct a and b, the second of them last, and returned different handles.
C21_Witness ==
    /\ LastRaise
    /\ last.u < nf /\ last.u # last.n
    /\ <<last.n, last.u>> \in MemoKeys
    /\ <<last.u, last.n>> \in MemoKeys
    /\ MemoRet(<<last.n, last.u>>) # last.ret

\* C22: recursive structure of raise_order. The handle h a call
\* raise_order(u, n) returns has the base of u. When u is first-order,
\* previous_order(h) is Some(n). When u is higher-order with previous order
\* p, previous_order(h) is the handle raise_order(p, n) returns when called
\* next, and that call inserts nothing and leaves the store as it is; a
\* recorded call raise_order(p, n) made after raise_order(u, n) returned the
\* previous order of that call's result and inserted nothing.
C22_RecursiveStructure ==
    LastRaise =>
        /\ to_first_order(last.ret) =
              to_first_order_of(first_order_unkowns, last.pre, last.u)
        /\ last.u < nf => previous_order(last.ret) = Some(UnkownFrom(last.n))
        /\ last.u >= nf =>
              LET p == previous_order_of(first_order_unkowns, last.pre, last.u)[1]
                  r == raise_order(first_order_unkowns, higher_order_unkowns, buf,
                                   p, last.n)
              IN  /\ previous_order(last.ret) = Some(r.curr)
                  /\ r.inserted = 0
                  /\ r.store = higher_order_unkowns
        /\ \A m \in memo :
              (/\ m.key[2] = last.n
               /\ m.key[1] >= nf
               /\ previous_order(m.key[1]) = Some(last.u)) =>
                  /\ previous_order(m.ret) = Some(last.ret)
                  /\ last.inserted = 0

\* raise_order(p, n) was called for the first time, after raise_order(u, n)
\* for a higher-order u whose previous order is p.
C22_Witness ==
    /\ LastRaise /\ ~last.again
    /\ last.inserted = 0
    /\ \E m \in memo :
          /\ m.key[2] = last.n
          /\ m.key[1] >= nf
          /\ previous_order(m.key[1]) = Some(last.u)
          /\ previous_order(m.ret) = Some(last.ret)

\* The number of lookup-or-insert steps the call in progress has taken.
Ensures == Len(SelectSeq(frame.log, LAMBDA e : e = "ensure"))

\* C23: per-call growth bound. With k the length of first_order_unkowns(u)
\* at call entry, the lookup-or-insert steps taken and the bases still to be
\* replayed add up to k throughout the loop, so that the call has taken
\* exactly k of them when the loop ends; each step inserts at most one
\* node, the store has grown by the number of nodes inserted, and the
\* returned call has raised len() by at least 0 and at most k.
C23_PerCallGrowth ==
    /\ (Running /\ frame.pc = "loop") =>
          LET k == Len(first_order_unkowns_of(first_order_unkowns, frame.entry,
                                              frame.unkown))
          IN  /\ Ensures + Len(frame.prev_orders.items) = k
              /\ frame.inserted >= 0 /\ frame.inserted <= Ensures
              /\ Len(higher_order_unkowns) = Len(frame.entry) + frame.inserted
    /\ (~Running /\ LastRaise) =>
          /\ len - len_of(first_order_unkowns, last.pre) = last.inserted
          /\ last.inserted >= 0
          /\ last.inserted <= Len(PreChain(last.u))

\* A call whose loop has ended after two lookup-or-insert steps, both of
\* which inserted a node.
C23_Witness ==
    /\ Running /\ frame.pc = "loop" /\ frame.prev_orders.items = <<>>
    /\ Ensures = 2
    /\ frame.inserted = 2
    /\ Len(higher_order_unkowns) = Len(frame.entry) + 2

\* C24: the scratch capacity is no limit. A raise_order call returns a valid
\* handle whose chain is that of u, as it was at call entry, followed by n,
\* whatever the length of u's chain; the scratch vector is put back empty
\* with a capacity that held the whole chain, the capacity it was allocated
\* with when the chain fits into that.
C24_CapacityNoLimit ==
    LastRaise =>
        /\ last.ret \in Unkown
        /\ first_order_unkowns_iter(last.ret) = PreChain(last.u) \o <<last.n>>
        /\ buf.items = <<>>
        /\ buf.cap >= Len(PreChain(last.u))
        /\ buf.cap >= ScratchCapacity
        /\ Len(higher_order_unkowns) < ScratchCapacity => buf.cap = ScratchCapacity

\* A call on an unknown whose chain has more than eight elements, with a
\* variable other than the one the chain starts with, returned a new handle,
\* and the scratch vector has grown.
C24_Witness ==
    /\ LastRaise
    /\ Len(PreChain(last.u)) > ScratchCapacity
    /\ last.n # PreChain(last.u)[1]
    /\ last.inserted > ScratchCapacity
    /\ Len(first_order_unkowns_iter(last.ret)) = Len(PreChain(last.u)) + 1
    /\ buf.cap > ScratchCapacity

\* C28: scratch-buffer discipline. While no raise_order call is in progress
\* the scratch buffer is empty, with its capacity kept; while one is, the
\* cell holds an empty vector without capacity, the local vector holds bases
\* of the chain u had at call entry and nothing else, and the loop starts on
\* exactly that chain.
C28_ScratchDiscipline ==
    /\ ~Running =>
          /\ buf.items = <<>>
          /\ buf.cap >= ScratchCapacity
    /\ Running =>
          LET chain == first_order_unkowns_of(first_order_unkowns, frame.entry,
                                              frame.unkown)
              held == frame.prev_orders.items
          IN  /\ buf = VecNew
              /\ Len(held) <= Len(chain)
              /\ \A i \in 1 .. Len(held) : held[i] = chain[i]
              /\ (frame.pc = "loop" /\ Ensures = 0) => held = chain

\* A call that is not the first has filled its vector with a chain of two
\* or more bases and is about to start its loop.
C28_Witness ==
    /\ Running /\ frame.pc = "loop" /\ Ensures = 0
    /\ LastRaise
    /\ Len(frame.entry) >= 1
    /\ Len(frame.prev_orders.items) >= 2
    /\ frame.prev_orders.items =
          first_order_unkowns_of(first_order_unkowns, frame.entry, frame.unkown)

\* The blocks of a graph that list a statement.
BlocksListing(cfg, stmt) ==
    {id \in 0 .. (Len(cfg.blocks) - 1) : stmt \in Range(cfg.blocks[id + 1].statements)}

\* The statement -> block mapping of a graph, statement by statement.
IsOwnerMapping(owner, cfg) ==
    /\ Len(owner) = stmt_count
    /\ \A stmt \in 0 .. (stmt_count - 1) :
          /\ \A id \in BlocksListing(cfg, stmt) : owner[stmt + 1] = Some(id)
          /\ BlocksListing(cfg, stmt) = {} => owner[stmt + 1] = None

\* C25: the statement-owner cache is computed at most once per validity
\* period. The cell is empty after construction and after invalidate(); a
\* compute call that finds it empty fills it with the statement -> block
\* mapping of the graph passed; a compute call that finds it filled leaves
\* it as it is; every compute call returns the cell's mapping, which is that
\* of the graph passed to the first compute call since the cell was last
\* empty, whatever graph is passed; and the mapping has been computed at
\* most once since then.
C25_LazyOwnerCache ==
    /\ last.op \in {"new", "invalidate"} => cache = None
    /\ last.runs \in {0, 1}
    /\ last.runs = 0 <=> cache = None
    /\ last.op = "compute" =>
          /\ cache # None
          /\ last.ret = cache
          /\ IsOwnerMapping(last.ret[1], last.from[1])
          /\ last.pre = None => last.from = last.cfg
          /\ last.pre # None => cache = last.pre

\* compute was called on a filled cell with a graph whose mapping differs
\* from the cell's, and returned the cell's.
C25_Witness ==
    /\ last.op = "compute"
    /\ last.pre # None
    /\ last.cfg # last.from
    /\ ~IsOwnerMapping(last.ret[1], last.cfg[1])
    /\ IsOwnerMapping(last.ret[1], last.from[1])
    /\ \E stmt \in 1 .. stmt_count : last.ret[1][stmt] = Some(1)

\* C26: lint level resolution precedence. lint_lvl answers with the scoped
\* overwrite and false when an item tree id is given and lint_overwrite has
\* a level for it; otherwise with the global overwrite and false when one is
\* set; otherwise with the lint's default level and true. The boolean is
\* true exactly when neither overwrite applied.
C26_LintPrecedence ==
    last.op = "lint_lvl" =>
        LET scoped == IF last.sctx = None THEN None
                      ELSE db[1].lint_overwrite[<<last.lint, last.sctx[1]>>]
            global == db[1].global_lint_overwrites[last.lint]
            default == db[1].default_lvl[last.lint]
        IN  /\ scoped # None => last.ret = <<scoped[1], FALSE>>
            /\ (scoped = None /\ global # None) => last.ret = <<global[1], FALSE>>
            /\ (scoped = None /\ global = None) => last.ret = <<default, TRUE>>
            /\ last.ret[2] <=> (scoped = None /\ global = None)

\* lint_lvl answered with the scoped overwrite where the global overwrite
\* and the default are both other levels.
C26_Witness ==
    /\ last.op = "lint_lvl"
    /\ last.sctx # None
    /\ db[1].lint_overwrite[<<last.lint, last.sctx[1]>>] # None
    /\ db[1].global_lint_overwrites[last.lint] # None
    /\ db[1].global_lint_overwrites[last.lint] #
          db[1].lint_overwrite[<<last.lint, last.sctx[1]>>]
    /\ db[1].default_lvl[last.lint] # last.ret[1]
    /\ last.ret = <<db[1].lint_overwrite[<<last.lint, last.sctx[1]>>][1], FALSE>>

\* C27 as stated: for every start <= end with end - start <= 255,
\* Attributes::new(start, end) does not panic, and the result's range is
\* start..end, its len end - start and its end() end.
C27_Original ==
    (/\ last.op = "Attributes::new"
     /\ last.start <= last.end
     /\ last.end - last.start <= 255) =>
        /\ ~last.ret.panicked
        /\ Attributes_as_range(last.ret) = [start |-> last.start, end |-> last.end]
        /\ last.ret.len = last.end - last.start
        /\ Attributes_end(last.ret) = last.end

====
